---- MODULE Spec2Model ----
(***************************************************************************)
(* A model of the SSD1306 display driver of mt32-pi (src/lcd/ssd1306.cpp): *)
(* the framebuffer, the pixel, glyph, text and level-meter drawing         *)
(* operations, the device initialisation and the bus writes.               *)
(***************************************************************************)
EXTENDS Integers, Sequences, FiniteSets, TLC

VARIABLES
    assertsEnabled, \* build: assert() active (no NDEBUG) or compiled out
    busPresent,     \* mI2CMaster != nullptr
    mAddress,       \* I2C address of the display
    mHeight,        \* declared pixel height
    mFramebuffer,   \* u8 mFramebuffer[], byte 0 is the control byte
    mTextBuffer,    \* status text of the base class, a string of char codes
    mPartLevels,    \* per channel level, 0..16
    mPeakLevels,    \* per channel peak, 0..16
    pc,             \* "constructed", "ready", "failed", "halted", "undefined"
    ret,            \* what the last Initialize returned: "none", "true", "false"
    bus,            \* the I2C writes issued by the most recent call, in order
    lastOp,         \* the most recent call and its arguments
    before,         \* mFramebuffer as it was when the most recent call began
    nOps            \* number of calls made so far

vars == <<assertsEnabled, busPresent, mAddress, mHeight, mFramebuffer, mTextBuffer,
          mPartLevels, mPeakLevels, pc, ret, bus, lastOp, before, nOps>>

----------------------------------------------------------------------------
(* Bounds of the model *)

\* Number of calls made on one driver object.
MaxOps == 3

----------------------------------------------------------------------------
(* Fixed-width integer arithmetic of the C++ code *)

RECURSIVE BitAnd(_, _)
BitAnd(a, b) == IF a = 0 \/ b = 0 THEN 0
                ELSE (a % 2) * (b % 2) + 2 * BitAnd(a \div 2, b \div 2)

RECURSIVE BitOr(_, _)
BitOr(a, b) == IF a = 0 THEN b
               ELSE IF b = 0 THEN a
               ELSE (IF a % 2 = 1 \/ b % 2 = 1 THEN 1 ELSE 0) + 2 * BitOr(a \div 2, b \div 2)

RECURSIVE BitXor(_, _)
BitXor(a, b) == IF a = 0 THEN b
                ELSE IF b = 0 THEN a
                ELSE ((a + b) % 2) + 2 * BitXor(a \div 2, b \div 2)

Shl(a, n) == a * 2^n
Shr(a, n) == a \div 2^n
BitAt(v, i) == Shr(v, i) % 2

\* Conversions to u8 and u16.
U8(v) == v % 256
U16(v) == v % 65536
\* The low 31 bits of ~v for an int v >= 0 (the sign bit of ~v is set; it is
\* lost when the result is ANDed with a value below 2^31).
Not31(v) == 2147483647 - v

\* Every bit set in a is set in b.
BitsSubset(a, b) == BitAnd(a, b) = a

----------------------------------------------------------------------------
(* Font conversion *)

\* Character codes used below.
Space == 32
Placeholder == 128
Undefined == 255

\* Rows of the source font for the glyph at index nIndex (code - ' '); each row
\* holds 6 pixels, bit 5 leftmost.
Font6x8(nIndex) ==
    CASE nIndex = 0  -> <<0, 0, 0, 0, 0, 0, 0, 0>>
      [] nIndex = 33 -> <<14, 17, 17, 31, 17, 17, 17, 0>>
      [] nIndex = 34 -> <<30, 17, 17, 30, 17, 17, 30, 0>>
      [] nIndex = 96 -> <<63, 63, 63, 63, 63, 63, 63, 63>>


RECURSIVE SingleColumnFrom(_, _, _)
SingleColumnFrom(CharData, bit, i) ==
    IF i = 8 THEN 0
    ELSE BitOr(Shl(BitAnd(Shr(CharData[i + 1], bit), 1), i),
               SingleColumnFrom(CharData, bit, i + 1))

\* Bits of column nColumn collected from the 8 rows, row 0 in bit 0.
SingleColumn(CharData, nColumn) == U8(SingleColumnFrom(CharData, 5 - nColumn, 0))

RECURSIVE DoubleColumnFrom(_, _)
DoubleColumnFrom(singleColumn, i) ==
    IF i = 8 THEN 0
    ELSE LET bit == BitAnd(Shr(singleColumn, i), 1)
         IN  BitOr(BitOr(Shl(bit, i * 2), Shl(bit, i * 2 + 1)),
                   DoubleColumnFrom(singleColumn, i + 1))

\* The column with every bit duplicated into two adjacent bits of a u16.
DoubleColumn(CharData, nColumn) ==
    U16(DoubleColumnFrom(SingleColumn(CharData, nColumn), 0))

\* Glyph indexes the model draws.
GlyphIndexes == {0, 33, 34, 96}

\* The double-height font, computed once.
FontDouble == [n \in GlyphIndexes |-> [i \in 0..5 |-> DoubleColumn(Font6x8(n), i)]]

----------------------------------------------------------------------------
(* Device initialisation sequence *)

InitSequence ==
    <<174,
      129, 127,
      166,
      32, 0,
      33, 0, 127,
      34, 0, 3,
      161,
      168, 31,
      200,
      211, 0,
      218, 2,
      213, 128,
      217, 34,
      219, 32,
      141, 20,
      164,
      175>>

\* Control bytes of the I2C protocol: a command follows, data follows.
CommandMarker == 128
DataMarker == 64

----------------------------------------------------------------------------
(* The framebuffer *)

\* Bytes of the mFramebuffer array: room for 64 rows, plus the control byte.
FramebufferSize == (128 * 64) \div 8 + 1

\* The array after construction: mFramebuffer{0x40}.
NewFramebuffer == [i \in 0..(FramebufferSize - 1) |-> IF i = 0 THEN DataMarker ELSE 0]

\* Number of bytes WriteFramebuffer hands to the bus.
\* (First the length of the pixel data alone, the control byte not counted.)
TransmitLengthNoControlByte(nHeight) == nHeight * 16
TransmitLength(nHeight) == nHeight * 16 + 1

\* One bus write: Write(address, buffer, length). data is the array the buffer
\* pointer names, as it is during the call; the bytes 0..length-1 of it are sent.
BusWrite(nAddress, data, nLength) ==
    [addr |-> nAddress, len |-> nLength, data |-> data]

\* The write WriteFramebuffer issues.
FramebufferWrite(nAddress, fb, nHeight) ==
    BusWrite(nAddress, fb, TransmitLength(nHeight))

\* The writes Initialize issues: buffer = {0x80, byte} for each byte in order.
\* (First the same writes led by the data marker instead of the command marker.)
InitializeWritesAsData(nAddress) ==
    [i \in 1..Len(InitSequence) |->
        BusWrite(nAddress, [k \in 0..1 |-> IF k = 0 THEN DataMarker ELSE InitSequence[i]], 2)]
InitializeWrites(nAddress) ==
    [i \in 1..Len(InitSequence) |->
        BusWrite(nAddress, [k \in 0..1 |-> IF k = 0 THEN CommandMarker ELSE InitSequence[i]], 2)]

----------------------------------------------------------------------------
(* Pixel addressing *)

\* Index of the byte holding pixel (nX, nY), both already masked.
\* (First the index without the +1 that skips the control byte.)
PixelOffsetNoControlByte(nX, nY) == Shl(BitAnd(nY, 248), 4) + nX
PixelOffset(nX, nY) == Shl(BitAnd(nY, 248), 4) + nX + 1

SetPixelFb(fb, x, y) ==
    LET nX == BitAnd(x, 127)
        nY == BitAnd(y, 63)
        o  == PixelOffset(nX, nY)
    IN  [fb EXCEPT ![o] = U8(BitOr(@, Shl(1, BitAnd(nY, 7))))]

\* (First a variant that clears the whole byte of the pixel.)
ClearPixelFbWholeByte(fb, x, y) ==
    LET nX == BitAnd(x, 127)
        nY == BitAnd(y, 63)
        o  == PixelOffset(nX, nY)
    IN  [fb EXCEPT ![o] = 0]
ClearPixelFb(fb, x, y) ==
    LET nX == BitAnd(x, 127)
        nY == BitAnd(y, 63)
        o  == PixelOffset(nX, nY)
    IN  [fb EXCEPT ![o] = U8(BitAnd(@, Not31(Shl(1, BitAnd(nY, 7)))))]

----------------------------------------------------------------------------
(* Glyph and text rendering *)

\* Default arguments of the declarations in lcd/ssd1306.h.
DefaultInverted == FALSE
DefaultDoubleWidth == FALSE
DefaultImmediate == FALSE
DefaultDrawPeaks == TRUE

\* Number of character cells of a text row.
TextColumns == 20

\* Index into the font of a character: static_cast<u8>(chChar - ' ') after the
\* remapping of '\xFF'.
GlyphIndex(chChar) == U8((IF chChar = Undefined THEN Placeholder ELSE chChar) - Space)

\* The font column as DrawChar stores it: all but the leftmost column and the
\* last two rows inverted when bInverted.
GlyphColumn(chChar, i, bInverted) ==
    LET fontColumn == FontDouble[GlyphIndex(chChar)][i]
    IN  IF i > 0 /\ bInverted THEN BitXor(fontColumn, 16383) ELSE fontColumn

\* Index of the upper byte of column i of the cell at (nCursorX, nCursorY).
CharOffset(nCursorX, nCursorY, bDoubleWidth, i) ==
    nCursorY * 128 * 2 + (nCursorX * (IF bDoubleWidth THEN 12 ELSE 6) + 4)
        + (IF bDoubleWidth THEN i * 2 ELSE i)

\* The low and the high byte of the font column, stored in the upper and in the
\* lower page of the cell.
ColumnLo(chChar, i, bInverted) == GlyphColumn(chChar, i, bInverted) % 256
ColumnHi(chChar, i, bInverted) == Shr(GlyphColumn(chChar, i, bInverted), 8) % 256

\* The loop over i = 0..5 of DrawChar, unrolled: each column is stored in both
\* pages, and once more in the next byte of each when bDoubleWidth.
DrawCharFb(fb, chChar, nCursorX, nCursorY, bInverted, bDoubleWidth) ==
    LET O(i) == CharOffset(nCursorX, nCursorY, bDoubleWidth, i)
        L(i) == ColumnLo(chChar, i, bInverted)
        H(i) == ColumnHi(chChar, i, bInverted)
    IN  IF bDoubleWidth
        THEN [fb EXCEPT
                ![O(0)] = L(0), ![O(0) + 128] = H(0), ![O(0) + 1] = L(0), ![O(0) + 128 + 1] = H(0),
                ![O(1)] = L(1), ![O(1) + 128] = H(1), ![O(1) + 1] = L(1), ![O(1) + 128 + 1] = H(1),
                ![O(2)] = L(2), ![O(2) + 128] = H(2), ![O(2) + 1] = L(2), ![O(2) + 128 + 1] = H(2),
                ![O(3)] = L(3), ![O(3) + 128] = H(3), ![O(3) + 1] = L(3), ![O(3) + 128 + 1] = H(3),
                ![O(4)] = L(4), ![O(4) + 128] = H(4), ![O(4) + 1] = L(4), ![O(4) + 128 + 1] = H(4),
                ![O(5)] = L(5), ![O(5) + 128] = H(5), ![O(5) + 1] = L(5), ![O(5) + 128 + 1] = H(5)]
        ELSE [fb EXCEPT
                ![O(0)] = L(0), ![O(0) + 128] = H(0),
                ![O(1)] = L(1), ![O(1) + 128] = H(1),
                ![O(2)] = L(2), ![O(2) + 128] = H(2),
                ![O(3)] = L(3), ![O(3) + 128] = H(3),
                ![O(4)] = L(4), ![O(4) + 128] = H(4),
                ![O(5)] = L(5), ![O(5) + 128] = H(5)]

\* while (*pText && nCursorX < 20) DrawChar(*pText++, nCursorX++, nCursorY);
\* k is the position of pText in the text. The result is the buffer and nCursorX.
\* (First the loop without the nCursorX < 20 condition.)
RECURSIVE PrintTextUnbounded(_, _, _, _, _)
PrintTextUnbounded(fb, pText, k, nCursorX, nCursorY) ==
    IF k <= Len(pText)
    THEN PrintTextUnbounded(
             DrawCharFb(fb, pText[k], nCursorX, nCursorY, DefaultInverted, DefaultDoubleWidth),
             pText, k + 1, nCursorX + 1, nCursorY)
    ELSE <<fb, nCursorX>>
RECURSIVE PrintTextFrom(_, _, _, _, _)
PrintTextFrom(fb, pText, k, nCursorX, nCursorY) ==
    IF k <= Len(pText) /\ nCursorX < TextColumns
    THEN PrintTextFrom(
             DrawCharFb(fb, pText[k], nCursorX, nCursorY, DefaultInverted, DefaultDoubleWidth),
             pText, k + 1, nCursorX + 1, nCursorY)
    ELSE <<fb, nCursorX>>

\* while (nCursorX < 20) DrawChar(' ', nCursorX++, nCursorY);
RECURSIVE ClearLineFrom(_, _, _)
ClearLineFrom(fb, nCursorX, nCursorY) ==
    IF nCursorX < TextColumns
    THEN ClearLineFrom(
             DrawCharFb(fb, Space, nCursorX, nCursorY, DefaultInverted, DefaultDoubleWidth),
             nCursorX + 1, nCursorY)
    ELSE fb

\* The framebuffer after Print, before its optional WriteFramebuffer.
PrintFb(fb, pText, nCursorX, nCursorY, bClearLine) ==
    LET drawn == PrintTextFrom(fb, pText, 1, nCursorX, nCursorY)
    IN  IF bClearLine THEN ClearLineFrom(drawn[1], drawn[2], nCursorY) ELSE drawn[1]

\* The writes Print issues.
PrintWrites(nAddress, fb, nHeight, bImmediate) ==
    IF bImmediate THEN <<FramebufferWrite(nAddress, fb, nHeight)>> ELSE <<>>

----------------------------------------------------------------------------
(* Level meters *)

Channels == 0..8

\* topVal and bottomVal of the bar of a level.
\* (First a variant with the shift counts not subtracted from 8.)
LevelBytesInverted(nLevel) ==
    IF nLevel > 8
    THEN <<U8(Shl(255, nLevel - 8)), 255>>
    ELSE <<0, U8(Shl(255, nLevel))>>
LevelBytes(nLevel) ==
    IF nLevel > 8
    THEN <<U8(Shl(255, 8 - (nLevel - 8))), 255>>
    ELSE <<0, U8(Shl(255, 8 - nLevel))>>

\* topVal and bottomVal with the peak bit ORed in.
PeakBytes(vals, nPeak) ==
    IF nPeak > 8
    THEN <<U8(BitOr(vals[1], Shl(1, 8 - (nPeak - 8)))), vals[2]>>
    ELSE <<vals[1], U8(BitOr(vals[2], Shl(1, 8 - nPeak)))>>

\* Index of byte j of the top page of channel i's block; the bottom page is 128 on.
BarOffset(i, j) == 256 + i * 14 + j + 3

\* The loop over j = 0..11 of DrawPartLevels, unrolled: topVal in the top page,
\* bottomVal in the page below it.
BarFb(fb, i, vals) ==
    LET T(j) == BarOffset(i, j)
        B(j) == BarOffset(i, j) + 128
    IN  [fb EXCEPT
            ![T(0)] = vals[1], ![B(0)] = vals[2], ![T(1)] = vals[1], ![B(1)] = vals[2],
            ![T(2)] = vals[1], ![B(2)] = vals[2], ![T(3)] = vals[1], ![B(3)] = vals[2],
            ![T(4)] = vals[1], ![B(4)] = vals[2], ![T(5)] = vals[1], ![B(5)] = vals[2],
            ![T(6)] = vals[1], ![B(6)] = vals[2], ![T(7)] = vals[1], ![B(7)] = vals[2],
            ![T(8)] = vals[1], ![B(8)] = vals[2], ![T(9)] = vals[1], ![B(9)] = vals[2],
            ![T(10)] = vals[1], ![B(10)] = vals[2], ![T(11)] = vals[1], ![B(11)] = vals[2]]

\* One iteration of the loop over the channels: the bytes are stored inside the
\* if (bDrawPeaks) block.
DrawPartLevelFb(fb, i, nLevel, nPeak, bDrawPeaks) ==
    IF bDrawPeaks
    THEN BarFb(fb, i, PeakBytes(LevelBytes(nLevel), nPeak))
    ELSE fb

RECURSIVE DrawPartLevelsFrom(_, _, _, _, _)
DrawPartLevelsFrom(fb, levels, peaks, bDrawPeaks, i) ==
    IF i = 9 THEN fb
    ELSE DrawPartLevelsFrom(DrawPartLevelFb(fb, i, levels[i], peaks[i], bDrawPeaks),
                            levels, peaks, bDrawPeaks, i + 1)

DrawPartLevelsFb(fb, levels, peaks, bDrawPeaks) ==
    DrawPartLevelsFrom(fb, levels, peaks, bDrawPeaks, 0)

----------------------------------------------------------------------------
(* Clear and Update *)

\* std::fill(mFramebuffer + 1, mFramebuffer + mHeight * 16 + 1, 0)
ClearFb(fb, nHeight) ==
    [i \in DOMAIN fb |-> IF i >= 1 /\ i < nHeight * 16 + 1 THEN 0 ELSE fb[i]]

\* The buffer after Print(mTextBuffer, 0, 0, true), and that buffer after
\* DrawPartLevels().
UpdatePrinted(fb, text) == PrintFb(fb, text, 0, 0, TRUE)
UpdateDrawn(fbPrinted, levels, peaks) ==
    DrawPartLevelsFb(fbPrinted, levels, peaks, DefaultDrawPeaks)

\* The writes Update issues: Print's if immediate, then WriteFramebuffer after
\* DrawPartLevels.
\* (First a variant that sends the buffer right after Print.)
UpdateWritesBeforeMeters(nAddress, nHeight, fbPrinted, fbDrawn) ==
    <<FramebufferWrite(nAddress, fbPrinted, nHeight)>>
UpdateWrites(nAddress, nHeight, fbPrinted, fbDrawn) ==
    PrintWrites(nAddress, fbPrinted, nHeight, DefaultImmediate)
        \o <<FramebufferWrite(nAddress, fbDrawn, nHeight)>>

----------------------------------------------------------------------------
(* The driver object *)

ValidHeight(nHeight) == nHeight = 32 \/ nHeight = 64

\* What every call records: itself, the buffer it found, and one more call made.
Called(name, args) ==
    /\ lastOp' = [name |-> name, args |-> args]
    /\ before' = mFramebuffer
    /\ nOps' = nOps + 1

\* The state after CSSD1306(pI2CMaster, nAddress, nHeight): the assertion on the
\* height stops the program when assertions are compiled in.
Constructed(bAsserts, bBus, nAddress, nHeight) ==
    /\ assertsEnabled = bAsserts
    /\ busPresent = bBus
    /\ mAddress = nAddress
    /\ mHeight = nHeight
    /\ mFramebuffer = NewFramebuffer
    /\ mTextBuffer = <<>>
    /\ mPartLevels = [i \in Channels |-> 0]
    /\ mPeakLevels = [i \in Channels |-> 0]
    /\ pc = IF bAsserts /\ ~ValidHeight(nHeight) THEN "halted" ELSE "constructed"
    /\ ret = "none"
    /\ bus = <<>>
    /\ lastOp = [name |-> "CSSD1306", args |-> <<>>]
    /\ before = NewFramebuffer
    /\ nOps = 0

\* What Initialize can do, as a set of <<pc, ret, writes>>: the assertion on the
\* bus handle, the check of the height, then the writes. With assertions compiled
\* out and no bus handle the writes go through a null pointer: the call may never
\* return, or return true having reached no device.
InitializeOutcomes(bAsserts, bBus, nAddress, nHeight) ==
    IF bAsserts /\ ~bBus THEN {<<"halted", "none", <<>> >>}
    ELSE IF ~ValidHeight(nHeight) THEN {<<"failed", "false", <<>> >>}
    ELSE IF ~bBus THEN {<<"undefined", "none", <<>> >>, <<"undefined", "true", <<>> >>}
    ELSE {<<"ready", "true", InitializeWrites(nAddress)>>}

Initialize ==
    /\ pc \in {"constructed", "ready"}
    /\ nOps < MaxOps
    /\ \E outcome \in InitializeOutcomes(assertsEnabled, busPresent, mAddress, mHeight) :
           /\ pc' = outcome[1]
           /\ ret' = outcome[2]
           /\ bus' = outcome[3]
    /\ Called("Initialize", <<>>)
    /\ UNCHANGED <<assertsEnabled, busPresent, mAddress, mHeight, mFramebuffer,
                   mTextBuffer, mPartLevels, mPeakLevels>>

\* The calls below are made once Initialize has returned true.
Ready == pc = "ready" /\ nOps < MaxOps

Draws(name, args, fb, writes) ==
    /\ Ready
    /\ mFramebuffer' = fb
    /\ bus' = writes
    /\ Called(name, args)
    /\ UNCHANGED <<assertsEnabled, busPresent, mAddress, mHeight, pc, ret>>

WriteFramebuffer ==
    /\ Draws("WriteFramebuffer", <<>>, mFramebuffer,
             <<FramebufferWrite(mAddress, mFramebuffer, mHeight)>>)
    /\ UNCHANGED <<mTextBuffer, mPartLevels, mPeakLevels>>

SetPixel(nX, nY) ==
    /\ Draws("SetPixel", <<nX, nY>>, SetPixelFb(mFramebuffer, nX, nY), <<>>)
    /\ UNCHANGED <<mTextBuffer, mPartLevels, mPeakLevels>>

ClearPixel(nX, nY) ==
    /\ Draws("ClearPixel", <<nX, nY>>, ClearPixelFb(mFramebuffer, nX, nY), <<>>)
    /\ UNCHANGED <<mTextBuffer, mPartLevels, mPeakLevels>>

DrawChar(chChar, nCursorX, nCursorY, bInverted, bDoubleWidth) ==
    /\ Draws("DrawChar", <<chChar, nCursorX, nCursorY, bInverted, bDoubleWidth>>,
             DrawCharFb(mFramebuffer, chChar, nCursorX, nCursorY, bInverted, bDoubleWidth),
             <<>>)
    /\ UNCHANGED <<mTextBuffer, mPartLevels, mPeakLevels>>

DrawPartLevels(bDrawPeaks) ==
    /\ Draws("DrawPartLevels", <<bDrawPeaks>>,
             DrawPartLevelsFb(mFramebuffer, mPartLevels, mPeakLevels, bDrawPeaks), <<>>)
    /\ UNCHANGED <<mTextBuffer, mPartLevels, mPeakLevels>>

PrintText(pText, nCursorX, nCursorY, bClearLine, bImmediate) ==
    /\ LET fb == PrintFb(mFramebuffer, pText, nCursorX, nCursorY, bClearLine)
       IN  Draws("PrintText", <<pText, nCursorX, nCursorY, bClearLine, bImmediate>>,
                 fb, PrintWrites(mAddress, fb, mHeight, bImmediate))
    /\ UNCHANGED <<mTextBuffer, mPartLevels, mPeakLevels>>

Clear ==
    /\ LET fb == ClearFb(mFramebuffer, mHeight)
       IN  Draws("Clear", <<>>, fb, <<FramebufferWrite(mAddress, fb, mHeight)>>)
    /\ UNCHANGED <<mTextBuffer, mPartLevels, mPeakLevels>>

\* Update(Synth): the base class takes the status text, the levels and the peaks
\* from the synth; the text line and the meters are redrawn and transmitted.
Update(text, levels, peaks) ==
    /\ mTextBuffer' = text
    /\ mPartLevels' = levels
    /\ mPeakLevels' = peaks
    /\ LET fbPrinted == UpdatePrinted(mFramebuffer, text)
           fbDrawn == UpdateDrawn(fbPrinted, levels, peaks)
       IN  Draws("Update", <<>>, fbDrawn,
                 UpdateWrites(mAddress, mHeight, fbPrinted, fbDrawn))

----------------------------------------------------------------------------
(* Inputs *)

Heights == {32, 48, 64}
Addresses == {60}

\* n times the character c.
Rep(c, n) == [k \in 1..n |-> c]

ShortText == Rep(65, 5)
FullText == Rep(66, 20)
LongText == [k \in 1..30 |-> IF k <= 20 THEN 65 + (k % 2) ELSE Undefined]

\* Coordinates: inside the display, its last pixel, and beyond both ranges.
PixelInputs == {<<0, 0>>, <<127, 63>>, <<130, 96>>}

\* <<chChar, nCursorX, nCursorY, bInverted, bDoubleWidth>>
CharInputs == {<<65, 0, 0, FALSE, FALSE>>, <<Undefined, 19, 0, TRUE, FALSE>>,
               <<66, 19, 0, FALSE, TRUE>>, <<65, 5, 1, TRUE, TRUE>>}

\* <<pText, nCursorX, nCursorY, bClearLine, bImmediate>>
TextInputs == {<<ShortText, 0, 0, TRUE, FALSE>>, <<LongText, 0, 0, FALSE, TRUE>>,
               <<ShortText, 18, 1, FALSE, FALSE>>}

\* Levels and peaks of the 9 channels, every value 0..16 on some channel.
Levels(k) == [i \in Channels |-> (2 * i + k) % 17]
Peaks(k) == [i \in Channels |-> (33 - 2 * i - k) % 17]

\* <<status text, levels, peaks>>
SynthInputs == {<<ShortText, Levels(0), Peaks(0)>>, <<FullText, Levels(1), Peaks(1)>>,
                <<ShortText, Levels(1), Peaks(0)>>}

----------------------------------------------------------------------------
(* The driver from its construction on *)

Init ==
    \E bAsserts \in BOOLEAN, bBus \in BOOLEAN, nAddress \in Addresses, nHeight \in Heights :
        Constructed(bAsserts, bBus, nAddress, nHeight)

Next ==
    \/ Initialize
    \/ WriteFramebuffer
    \/ \E p \in PixelInputs : SetPixel(p[1], p[2])
    \/ \E p \in PixelInputs : ClearPixel(p[1], p[2])
    \/ \E c \in CharInputs : DrawChar(c[1], c[2], c[3], c[4], c[5])
    \/ \E b \in BOOLEAN : DrawPartLevels(b)
    \/ \E t \in TextInputs : PrintText(t[1], t[2], t[3], t[4], t[5])
    \/ Clear
    \/ \E s \in SynthInputs : Update(s[1], s[2], s[3])

Spec == Init /\ [][Next]_vars

----------------------------------------------------------------------------
(* The driver in use: Initialize has returned true and the buffer holds what
   earlier calls have drawn. Calls are counted from here. *)

Initialized(nHeight, fb, levels, peaks) ==
    /\ assertsEnabled = TRUE
    /\ busPresent = TRUE
    /\ mAddress \in Addresses
    /\ mHeight = nHeight
    /\ mFramebuffer = fb
    /\ mTextBuffer = <<>>
    /\ mPartLevels = levels
    /\ mPeakLevels = peaks
    /\ pc = "ready"
    /\ ret = "true"
    /\ bus = InitializeWrites(mAddress)
    /\ lastOp = [name |-> "Initialize", args |-> <<>>]
    /\ before = fb
    /\ nOps = 0

NoLevels == [i \in Channels |-> 0]

\* Pixel operations on a blank buffer and on one holding a glyph.
PixelXs == {4, 127, 132}
PixelYs == {2, 63, 66}
GlyphBuffer == DrawCharFb(NewFramebuffer, 65, 0, 0, FALSE, FALSE)

InitPixel ==
    \E nHeight \in {32, 64}, fb \in {NewFramebuffer, GlyphBuffer} :
        Initialized(nHeight, fb, NoLevels, NoLevels)

NextPixel ==
    \/ \E x \in PixelXs, y \in PixelYs : SetPixel(x, y)
    \/ \E x \in PixelXs, y \in PixelYs : ClearPixel(x, y)

SpecPixel == InitPixel /\ [][NextPixel]_vars

\* Print on a blank text row and on a full one.
FullBuffer == PrintFb(NewFramebuffer, FullText, 0, 0, FALSE)

\* <<pText, nCursorX, bClearLine, bImmediate>>
PrintInputs == {<<ShortText, 0, TRUE, FALSE>>, <<ShortText, 0, FALSE, FALSE>>,
                <<LongText, 0, FALSE, FALSE>>, <<LongText, 0, TRUE, TRUE>>,
                <<FullText, 0, FALSE, TRUE>>, << <<>>, 0, TRUE, FALSE>>,
                << <<>>, 0, FALSE, FALSE>>, <<ShortText, 18, FALSE, FALSE>>,
                <<Rep(65, 19), 0, TRUE, FALSE>>, <<Rep(65, 21), 0, TRUE, FALSE>>}

InitText ==
    \E nHeight \in {32, 64}, fb \in {NewFramebuffer, FullBuffer} :
        Initialized(nHeight, fb, NoLevels, NoLevels)

NextText ==
    \E t \in PrintInputs : PrintText(t[1], t[2], 0, t[3], t[4])

SpecText == InitText /\ [][NextText]_vars

\* The meters of one channel at every level and every peak.
MeterLevels == 0..16
MeterPeaks == 0..16
OneChannel(i, v) == [k \in Channels |-> IF k = i THEN v ELSE 0]

InitMeter ==
    \E i \in Channels, nLevel \in MeterLevels, nPeak \in MeterPeaks :
        Initialized(32, NewFramebuffer, OneChannel(i, nLevel), OneChannel(i, nPeak))

NextMeter ==
    \E bDrawPeaks \in BOOLEAN : DrawPartLevels(bDrawPeaks)

SpecMeter == InitMeter /\ [][NextMeter]_vars

----------------------------------------------------------------------------
(* Properties *)

Name == lastOp.name
Args == lastOp.args

\* The character shown in cell c of a line holding text: blank past its end.
CharAt(text, c) == IF c < Len(text) THEN text[c + 1] ELSE Space

\* The bytes of cell c of text row nCursorY in buffer data are those of chChar.
ShowsChar(data, c, nCursorY, chChar) ==
    \A i \in 0..5 :
        /\ data[CharOffset(c, nCursorY, FALSE, i)] = ColumnLo(chChar, i, FALSE)
        /\ data[CharOffset(c, nCursorY, FALSE, i) + 128] = ColumnHi(chChar, i, FALSE)

\* The bytes of cell c of text row nCursorY are the same in data and in old.
SameChar(data, old, c, nCursorY) ==
    \A i \in 0..5 :
        /\ data[CharOffset(c, nCursorY, FALSE, i)] = old[CharOffset(c, nCursorY, FALSE, i)]
        /\ data[CharOffset(c, nCursorY, FALSE, i) + 128]
               = old[CharOffset(c, nCursorY, FALSE, i) + 128]

\* The indexes of the 20 cells of text row nCursorY, in both pages.
RowOffsets(nCursorY) ==
    LET first == CharOffset(0, nCursorY, FALSE, 0)
        last  == CharOffset(TextColumns - 1, nCursorY, FALSE, 5)
    IN  (first..last) \cup ((first + 128)..(last + 128))

\* The 12-byte block of channel i in buffer data holds vals in both pages.
ShowsBar(data, i, vals) ==
    \A j \in 0..11 :
        /\ data[BarOffset(i, j)] = vals[1]
        /\ data[BarOffset(i, j) + 128] = vals[2]

\* The indexes of the meter blocks, in both pages.
MeterOffsets ==
    UNION {{BarOffset(i, j), BarOffset(i, j) + 128} : i \in Channels, j \in 0..11}

\* C1: every Update issues exactly one bus write, of the whole framebuffer, and
\* each write it issues carries the status text of this Update and the meters of
\* this Update's levels and peaks: none carries the new text with the old meters.
C1_UpdateWritesOnceAfterRedraw ==
    Name = "Update" =>
        /\ Len(bus) = 1
        /\ bus[1].data = mFramebuffer
        /\ \A k \in 1..Len(bus) :
            /\ bus[k].addr = mAddress
            /\ bus[k].len = mHeight * 16 + 1
            /\ \A c \in 0..(TextColumns - 1) :
                   ShowsChar(bus[k].data, c, 0, CharAt(mTextBuffer, c))
            /\ \A i \in Channels :
                   ShowsBar(bus[k].data, i,
                            PeakBytes(LevelBytes(mPartLevels[i]), mPeakLevels[i]))

\* An Update that changed both the text line and the meters.
C1_Witness ==
    /\ Name = "Update"
    /\ \E o \in RowOffsets(0) : mFramebuffer[o] # before[o]
    /\ \E o \in MeterOffsets : mFramebuffer[o] # before[o]

\* The commands of the bring-up sequence as documented, each opcode with its
\* parameters: display off, contrast, normal display, addressing mode, column
\* range, page range, segment remap, multiplex ratio, scan direction, display
\* offset, COM pins, oscillator, precharge, VCOMH, charge pump, resume to RAM,
\* display on.
DocumentedCommands ==
    << <<174>>, <<129, 127>>, <<166>>, <<32, 0>>, <<33, 0, 127>>, <<34, 0, 3>>,
       <<161>>, <<168, 31>>, <<200>>, <<211, 0>>, <<218, 2>>, <<213, 128>>,
       <<217, 34>>, <<219, 32>>, <<141, 20>>, <<164>>, <<175>> >>

RECURSIVE Flatten(_)
Flatten(seqs) == IF seqs = <<>> THEN <<>> ELSE Head(seqs) \o Flatten(Tail(seqs))

\* C2: with a height of 32 or 64 and a bus handle, Initialize returns true and
\* issues one 2-byte write (0x80, then the byte) per byte of the init sequence,
\* in the documented order: display off first, display on last, every parameter
\* in the write right after its opcode.
C2_InitializeSequence ==
    Name = "Initialize" /\ ValidHeight(mHeight) /\ busPresent =>
        /\ ret = "true"
        /\ pc = "ready"
        /\ Len(bus) = Len(Flatten(DocumentedCommands))
        /\ \A k \in 1..Len(bus) :
            /\ bus[k].addr = mAddress
            /\ bus[k].len = 2
            /\ bus[k].data[0] = 128
            /\ bus[k].data[1] = Flatten(DocumentedCommands)[k]
        /\ bus[1].data[1] = 174
        /\ bus[Len(bus)].data[1] = 175

\* Initialize has succeeded on a 64-row display.
C2_Witness ==
    /\ Name = "Initialize"
    /\ mHeight = 64
    /\ busPresent
    /\ ret = "true"
    /\ Len(bus) = 30

\* C3: whenever the height is not 32 or 64, or the bus handle is
\* absent, Initialize returns false, writes nothing and leaves the framebuffer
\* as it was.
C3_Claim ==
    Name = "Initialize" /\ (~ValidHeight(mHeight) \/ ~busPresent) =>
        /\ ret = "false"
        /\ bus = <<>>
        /\ mFramebuffer = before

\* C4: WriteFramebuffer issues one bus write of height*16+1 bytes (513 for 32
\* rows, 1025 for 64), whatever was drawn before it.
C4_WriteFramebufferLength ==
    Name = "WriteFramebuffer" =>
        /\ Len(bus) = 1
        /\ bus[1].addr = mAddress
        /\ bus[1].data = mFramebuffer
        /\ bus[1].len = mHeight * 16 + 1
        /\ mHeight = 32 => bus[1].len = 513
        /\ mHeight = 64 => bus[1].len = 1025

\* WriteFramebuffer has been called on a 32-row display after something was drawn.
C4_Witness ==
    /\ Name = "WriteFramebuffer"
    /\ mHeight = 32
    /\ mFramebuffer # NewFramebuffer

\* C5: byte 0 of the framebuffer is the data marker 0x40 in every state.
C5_ControlByte == mFramebuffer[0] = 64

\* The first pixel has been set: the byte right after the control byte changed.
C5_Witness ==
    /\ Name = "SetPixel"
    /\ Args = <<0, 0>>
    /\ mFramebuffer[1] = 1
    /\ before[1] = 0

\* A ClearPixel that follows a SetPixel with the same arguments.
ClearAfterSet ==
    /\ Name = "SetPixel"
    /\ lastOp'.name = "ClearPixel"
    /\ lastOp'.args = Args

\* C6 as stated: SetPixel(x, y) then ClearPixel(x, y) gives back the buffer as
\* it was before the SetPixel, whatever it held.
C6_Original == [][ClearAfterSet => mFramebuffer' = before]_vars

\* C6 amended: SetPixel(x, y) then ClearPixel(x, y) gives the buffer as it was
\* before the SetPixel with that one pixel cleared; it is the prior buffer
\* exactly when the pixel was clear in it.
C6_SetThenClear ==
    [][ClearAfterSet =>
          LET nX == Args[1] % 128
              nY == Args[2] % 64
              o  == (nY \div 8) * 128 + nX + 1
              b  == nY % 8
          IN  /\ mFramebuffer' =
                     [before EXCEPT ![o] = IF BitAt(@, b) = 1 THEN @ - 2^b ELSE @]
              /\ BitAt(before[o], b) = 0 => mFramebuffer' = before]_vars

\* SetPixel(127, 63) then ClearPixel(127, 63) on a blank buffer: the pixel was
\* set when ClearPixel began and the buffer is blank again.
C6_Witness ==
    /\ nOps = 2
    /\ Name = "ClearPixel"
    /\ Args = <<127, 63>>
    /\ BitAt(before[1024], 7) = 1
    /\ mFramebuffer = NewFramebuffer

\* C7: for every channel and level L in 0..15, every bit set in the channel's
\* bar bytes after DrawPartLevels at level L is set after DrawPartLevels at
\* level L + 1, the buffer it starts from, the peaks and bDrawPeaks being the same.
C7_LevelMonotonic ==
    Name = "DrawPartLevels" =>
        \A i \in Channels :
            mPartLevels[i] < 16 =>
                LET raised == DrawPartLevelsFb(before, [mPartLevels EXCEPT ![i] = @ + 1],
                                               mPeakLevels, Args[1])
                IN  \A j \in 0..11 :
                        /\ BitsSubset(mFramebuffer[BarOffset(i, j)], raised[BarOffset(i, j)])
                        /\ BitsSubset(mFramebuffer[BarOffset(i, j) + 128],
                                      raised[BarOffset(i, j) + 128])

\* A bar at level 8 has been drawn: its bottom page is full, the next level
\* starts the top page.
C7_Witness ==
    /\ Name = "DrawPartLevels"
    /\ Args[1]
    /\ \E i \in Channels :
        /\ mPartLevels[i] = 8
        /\ mPeakLevels[i] = 3
        /\ mFramebuffer[BarOffset(i, 0)] = 0
        /\ mFramebuffer[BarOffset(i, 0) + 128] = 255

\* C8: Print at column 0 draws the first min(length, 20) characters, one per
\* 6-byte cell, and nothing outside the 20 cells of the row; with bClearLine the
\* cells from the end of the text to cell 19 hold the blank glyph, without it
\* they are unchanged.
C8_PrintLine ==
    Name = "PrintText" /\ Args[2] = 0 =>
        LET pText == Args[1]
            nCursorY == Args[3]
            n == IF Len(pText) < 20 THEN Len(pText) ELSE 20
        IN  /\ \A c \in 0..19 :
                   IF c < n THEN ShowsChar(mFramebuffer, c, nCursorY, pText[c + 1])
                   ELSE IF Args[4] THEN ShowsChar(mFramebuffer, c, nCursorY, Space)
                   ELSE SameChar(mFramebuffer, before, c, nCursorY)
            /\ \A o \in DOMAIN mFramebuffer \ RowOffsets(nCursorY) :
                   mFramebuffer[o] = before[o]

\* A 5-character text printed with bClearLine over a full line: cells 5..19 were
\* not blank before.
C8_Witness ==
    /\ Name = "PrintText"
    /\ Args = <<ShortText, 0, 0, TRUE, FALSE>>
    /\ before = FullBuffer
    /\ mFramebuffer # before

\* C9 as stated: DrawPartLevels stores the bar bytes of every channel in its
\* 12-byte block whether or not bDrawPeaks is set, the peak bit ORed in only
\* when it is set.
C9_Claim ==
    Name = "DrawPartLevels" =>
        \A i \in Channels :
            ShowsBar(mFramebuffer, i,
                     IF Args[1]
                     THEN PeakBytes(LevelBytes(mPartLevels[i]), mPeakLevels[i])
                     ELSE LevelBytes(mPartLevels[i]))

\* A drawing operation has acted on a display of height 32 or 64, DrawChar and
\* Print on text row 0 and a column below 20.
RowZeroDraw ==
    /\ ValidHeight(mHeight)
    /\ Name \in {"SetPixel", "ClearPixel", "DrawChar", "PrintText", "DrawPartLevels", "Clear"}
    /\ Name \in {"DrawChar", "PrintText"} => Args[2] \in 0..19 /\ Args[3] = 0

\* C10 as stated: on a display of height 32 or 64 the drawing operations
\* (DrawChar and Print on text row 0) change only the bytes 1..height*16.
C10_Claim ==
    RowZeroDraw =>
        \A o \in DOMAIN mFramebuffer :
            mFramebuffer[o] # before[o] => o \in 1..(mHeight * 16)

====
